---------------------------- MODULE Spec2Model ----------------------------
(***************************************************************************)
(* cargo-edit-completion: the local index search engine.                   *)
(*                                                                         *)
(* A string is a sequence of characters, a character a one-element TLA+    *)
(* string; WideChar stands for a character whose UTF-8 encoding takes two  *)
(* bytes.  A path is the sequence of its segments below the index root.    *)
(* The index is the set of crate names it holds (stored), laid out as      *)
(* cargo lays a registry index out, and the text of each metadata file     *)
(* (meta).  Every query is one action; it records its arguments in call    *)
(* and what its caller gets in result.                                     *)
(***************************************************************************)
EXTENDS Naturals, Sequences, FiniteSets

VARIABLES stored, meta, call, result

vars == <<stored, meta, call, result>>

(***************************** bounds **************************************)
MaxNameLen == 4
MaxStored == 1
MaxPrefixLen == 3
MaxQueryLen == 3
MaxCandLen == 3
MaxFragLen == 4
MaxRecords == 2
MaxReqLen == 2

(***************************** strings *************************************)
Letters == {"a", "b"}
Seps == {"-", "_"}
WideChar == "U+00E9"

\* The strings over S of length n, then of length lo to hi.
RECURSIVE SeqsOfLen(_, _)
SeqsOfLen(S, n) ==
    IF n = 0 THEN {<<>>} ELSE {Append(s, x) : s \in SeqsOfLen(S, n - 1), x \in S}

SeqsFrom(S, lo, hi) == UNION {SeqsOfLen(S, k) : k \in lo..hi}

SeqsUpTo(S, n) == SeqsFrom(S, 0, n)

Last(s) == s[Len(s)]

Front(s) == SubSeq(s, 1, Len(s) - 1)

Drop(s, k) == SubSeq(s, k + 1, Len(s))

StartsWith(s, p) == Len(p) <= Len(s) /\ SubSeq(s, 1, Len(p)) = p

RECURSIVE ByteLen(_)
ByteLen(s) == IF s = <<>> THEN 0
              ELSE (IF s[1] = WideChar THEN 2 ELSE 1) + ByteLen(Tail(s))

\* str::split_at(mid): panics unless mid falls on a character boundary.
SplitAt(s, mid) ==
    LET cuts == {j \in 0..Len(s) : ByteLen(SubSeq(s, 1, j)) = mid}
    IN  IF cuts = {} THEN [ok |-> FALSE, head |-> <<>>, tail |-> <<>>]
        ELSE LET j == CHOOSE x \in cuts : TRUE
             IN  [ok |-> TRUE, head |-> SubSeq(s, 1, j), tail |-> Drop(s, j)]

\* str::replace(from, to) for a one-character from.
RECURSIVE Replace(_, _, _)
Replace(s, from, to) ==
    IF s = <<>> THEN <<>>
    ELSE (IF s[1] = from THEN to ELSE <<s[1]>>) \o Replace(Tail(s), from, to)

(***************************** the shard tree ******************************)
\* The registry index keeps a crate's metadata file at 1/<name>, 2/<name>,
\* 3/<first character>/<name>, or <first two>/<next two>/<name>.
ShardPath(n) ==
    CASE Len(n) = 1 -> << <<"1">>, n >>
      [] Len(n) = 2 -> << <<"2">>, n >>
      [] Len(n) = 3 -> << <<"3">>, <<n[1]>>, n >>
      [] OTHER      -> << SubSeq(n, 1, 2), SubSeq(n, 3, 4), n >>

Root == <<>>

Files == {ShardPath(n) : n \in stored}

IsFile(p) == p \in Files

\* Path::is_dir
IsDir(p) == p = Root \/ \E f \in Files : Len(p) < Len(f) /\ SubSeq(f, 1, Len(p)) = p

\* Path::read_dir: the paths of the entries of directory p.
ReadDir(p) == {SubSeq(f, 1, Len(p) + 1) : f \in {g \in Files : Len(p) < Len(g) /\ SubSeq(g, 1, Len(p)) = p}}

CrateMeta(e) == [kind |-> "Some", name |-> Last(e), path |-> e]

NoCrate == [kind |-> "None", name |-> <<>>, path |-> <<>>]

Panicked == [kind |-> "Panic", name |-> <<>>, path |-> <<>>]

(***************************** exact lookup ********************************)
RECURSIVE CrateExact(_, _, _)
CrateExact(path, prefix, remaining) ==
    IF ~IsDir(path) THEN NoCrate
    ELSE LET hits == {e \in ReadDir(path) : Last(e) = prefix}
         IN  IF hits # {} THEN CrateMeta(CHOOSE e \in hits : TRUE)
             ELSE CASE ByteLen(remaining) = 0 -> NoCrate
                    [] ByteLen(remaining) = 1 -> CrateExact(path, prefix, <<>>)
                    [] OTHER ->
                         LET s1 == SplitAt(remaining, 1)
                             s2 == SplitAt(remaining, 2)
                         IN  IF ~s1.ok THEN Panicked
                             ELSE LET r1 == CrateExact(Append(path, s1.head), prefix, s1.tail)
                                  IN  IF r1.kind # "None" THEN r1
                                      ELSE IF ~s2.ok THEN Panicked
                                      ELSE CrateExact(Append(path, s2.head), prefix, s2.tail)

\* CratesIndex::crate_
Crate_(name) == CrateExact(Root, name, name)

(***************************** the matcher *********************************)
\* The pattern text regexify hands to Regex::new.  The second replace also
\* rewrites the '_' of every "?[-_]" the first one put in.
PatternText(partial_name) ==
    <<"^">> \o Replace(Replace(partial_name, "-", <<"?", "[", "-", "_", "]">>),
                       "_", <<"?", "[", "-", "_", "]">>)

BadPattern == [ok |-> FALSE, set |-> {}, next |-> 0]

\* A bracketed class read from position i, which follows its '['.  Classes
\* nest; a '-' right after the '[' and any other character stand for
\* themselves; the class ends at its ']', and a pattern that ends first
\* does not compile.
RECURSIVE ParseClass(_, _, _)
ParseClass(pat, i, acc) ==
    IF i > Len(pat) THEN BadPattern
    ELSE IF pat[i] = "]" THEN [ok |-> TRUE, set |-> acc, next |-> i + 1]
    ELSE IF pat[i] = "[" THEN
        LET inner == ParseClass(pat, i + 1, {})
        IN  IF ~inner.ok THEN BadPattern
            ELSE ParseClass(pat, inner.next, acc \cup inner.set)
    ELSE ParseClass(pat, i + 1, acc \cup {pat[i]})

AnchorItem == [anchor |-> TRUE, set |-> {}, opt |-> FALSE]

SetItem(S) == [anchor |-> FALSE, set |-> S, opt |-> FALSE]

\* Regex::new: the pattern as a sequence of items, each the start anchor or
\* a set of characters, each optional when a '?' follows it.  A '?' with
\* nothing before it does not compile.
RECURSIVE ParseItems(_, _, _)
ParseItems(pat, i, acc) ==
    IF i > Len(pat) THEN [ok |-> TRUE, items |-> acc]
    ELSE IF pat[i] = "^" THEN ParseItems(pat, i + 1, Append(acc, AnchorItem))
    ELSE IF pat[i] = "?" THEN
        IF acc = <<>> THEN [ok |-> FALSE, items |-> <<>>]
        ELSE ParseItems(pat, i + 1, [acc EXCEPT ![Len(acc)].opt = TRUE])
    ELSE IF pat[i] = "[" THEN
        LET cls == ParseClass(pat, i + 1, {})
        IN  IF ~cls.ok THEN [ok |-> FALSE, items |-> <<>>]
            ELSE ParseItems(pat, cls.next, Append(acc, SetItem(cls.set)))
    ELSE ParseItems(pat, i + 1, Append(acc, SetItem({pat[i]})))

\* regexify, before its unwrap.
Regexify(partial_name) == ParseItems(PatternText(partial_name), 1, <<>>)

RECURSIVE MatchItems(_, _, _, _)
MatchItems(items, k, c, i) ==
    IF k > Len(items) THEN TRUE
    ELSE \/ items[k].opt /\ MatchItems(items, k + 1, c, i)
         \/ /\ items[k].anchor
            /\ i = 1
            /\ MatchItems(items, k + 1, c, i)
         \/ /\ ~items[k].anchor
            /\ i <= Len(c)
            /\ c[i] \in items[k].set
            /\ MatchItems(items, k + 1, c, i + 1)

\* Regex::is_match: the pattern matches somewhere in c.
IsMatch(items, c) == \E s \in 1..(Len(c) + 1) : MatchItems(items, 1, c, s)

(***************************** name variants *******************************)
HyphenOnlyDomain(char) == IF char = "-" THEN <<"_", "-">> ELSE <<char>>

\* The iterator expand_path_domain maps one character to.
CharDomain(char) == IF char = "_" \/ char = "-" THEN <<"_", "-">> ELSE <<char>>

\* One more iterator at the end of a product: the last one turns fastest.
RECURSIVE Cross(_, _, _)
Cross(prods, dom, k) ==
    IF k > Len(prods) THEN <<>>
    ELSE [j \in 1..Len(dom) |-> Append(prods[k], dom[j])] \o Cross(prods, dom, k + 1)

\* expand_path_domain, as the sequence the iterator yields.  The call
\* sites pass one or two characters; the product of no iterators is
\* written as itertools 0.10 computes it (nothing is yielded).
RECURSIVE ExpandPathDomain(_)
ExpandPathDomain(part) ==
    IF part = <<>> THEN <<>>
    ELSE IF Len(part) = 1 THEN [j \in 1..Len(CharDomain(part[1])) |-> <<CharDomain(part[1])[j]>>]
    ELSE Cross(ExpandPathDomain(Front(part)), CharDomain(Last(part)), 1)

Range(f) == {f[x] : x \in DOMAIN f}

(***************************** prefix search *******************************)
Subdirs(path) == {e \in ReadDir(path) : IsDir(e)}

RECURSIVE CratesWithPrefix(_, _, _)
CratesWithPrefix(path, matcher, remaining) ==
    IF ~IsDir(path) THEN {}
    ELSE LET files == {e \in ReadDir(path) : IsFile(e)}
             kept == IF remaining = <<>> THEN files
                     ELSE {e \in files : IsMatch(matcher, Last(e))}
             crates == {CrateMeta(e) : e \in kept}
         IN  CASE ByteLen(remaining) = 0 ->
                    crates \cup UNION {CratesWithPrefix(d, matcher, <<>>) : d \in Subdirs(path)}
               [] ByteLen(remaining) = 1 ->
                    LET parts == Range(ExpandPathDomain(remaining))
                        picked == {d \in Subdirs(path) : \E part \in parts : StartsWith(Last(d), part)}
                    IN  crates \cup UNION {CratesWithPrefix(d, matcher, <<>>) : d \in picked}
               [] OTHER ->
                    LET s1 == SplitAt(remaining, 1)
                        s2 == SplitAt(remaining, 2)
                    IN  IF ~s1.ok \/ ~s2.ok THEN {Panicked}
                        ELSE crates
                             \cup UNION {CratesWithPrefix(Append(path, h), matcher, s1.tail) :
                                             h \in Range(ExpandPathDomain(s1.head))}
                             \cup UNION {CratesWithPrefix(Append(path, h), matcher, s2.tail) :
                                             h \in Range(ExpandPathDomain(s2.head))}

Ok(v) == [kind |-> "Ok", val |-> v]

Err(e) == [kind |-> "Err", val |-> e]

Abort == [kind |-> "Abort", val |-> "panic"]

\* CratesIndex::crates_with_prefix
CratesWithPrefixOf(prefix) ==
    LET re == Regexify(prefix)
    IN  IF ~re.ok THEN Abort
        ELSE LET found == CratesWithPrefix(Root, re.items, prefix)
             IN  IF Panicked \in found THEN Abort ELSE Ok(found)

(***************************** metadata files ******************************)
\* One line of a metadata file: a release record, or text serde_json cannot
\* decode into a Crate.
Release(vers, yanked, features) ==
    [ok |-> TRUE, vers |-> vers, yanked |-> yanked, features |-> features]

BadLine == [ok |-> FALSE, vers |-> <<>>, yanked |-> FALSE, features |-> {}]

\* CrateMeta::detail: read_to_string fails on a directory, and one line that
\* does not decode fails the whole collect.
Detail(crate_) ==
    IF ~IsFile(crate_.path) THEN Err("IoFailure")
    ELSE LET lines == meta[crate_.name]
         IN  IF \E i \in 1..Len(lines) : ~lines[i].ok THEN Err("DecodeFailure")
             ELSE Ok(lines)

(***************************** semantic versions ***************************)
DigitChar == <<"0", "1", "2", "3", "4", "5", "6", "7", "8", "9">>

Digits == Range(DigitChar)

DigitVal(c) == (CHOOSE d \in 1..10 : DigitChar[d] = c) - 1

RECURSIVE NatVal(_)
NatVal(seg) == IF seg = <<>> THEN 0 ELSE NatVal(Front(seg)) * 10 + DigitVal(Last(seg))

RECURSIVE NatToStr(_)
NatToStr(n) == IF n < 10 THEN <<DigitChar[n + 1]>>
               ELSE NatToStr(n \div 10) \o <<DigitChar[(n % 10) + 1]>>

IndexOf(s, ch) == IF \E i \in 1..Len(s) : s[i] = ch
                  THEN CHOOSE i \in 1..Len(s) : s[i] = ch /\ \A j \in 1..(i - 1) : s[j] # ch
                  ELSE 0

RECURSIVE SplitOn(_, _)
SplitOn(s, ch) ==
    LET i == IndexOf(s, ch)
    IN  IF i = 0 THEN <<s>> ELSE <<SubSeq(s, 1, i - 1)>> \o SplitOn(Drop(s, i), ch)

AllDigits(seg) == \A i \in 1..Len(seg) : seg[i] \in Digits

\* A numeric field: digits, with no leading zero.
Numeric(seg) == seg # <<>> /\ AllDigits(seg) /\ (Len(seg) = 1 \/ seg[1] # "0")

IdentChars == Digits \cup Letters \cup {"-"}

Identifier(seg) == seg # <<>> /\ \A i \in 1..Len(seg) : seg[i] \in IdentChars

PreOk(pre) == \A seg \in Range(SplitOn(pre, ".")) : Identifier(seg) /\ (AllDigits(seg) => Numeric(seg))

BuildOk(build) == \A seg \in Range(SplitOn(build, ".")) : Identifier(seg)

NoVersion == [ok |-> FALSE, major |-> 0, minor |-> 0, patch |-> 0, pre |-> <<>>, build |-> <<>>]

\* Version::parse: major.minor.patch, then -pre, then +build.
VersionParse(text) ==
    LET plus == IndexOf(text, "+")
        head == IF plus = 0 THEN text ELSE SubSeq(text, 1, plus - 1)
        build == IF plus = 0 THEN <<>> ELSE Drop(text, plus)
        dash == IndexOf(head, "-")
        core == IF dash = 0 THEN head ELSE SubSeq(head, 1, dash - 1)
        pre == IF dash = 0 THEN <<>> ELSE Drop(head, dash)
        nums == SplitOn(core, ".")
    IN  IF /\ Len(nums) = 3
           /\ \A i \in 1..3 : Numeric(nums[i])
           /\ (dash # 0 => PreOk(pre))
           /\ (plus # 0 => BuildOk(build))
        THEN [ok |-> TRUE, major |-> NatVal(nums[1]), minor |-> NatVal(nums[2]),
              patch |-> NatVal(nums[3]), pre |-> pre, build |-> build]
        ELSE NoVersion

\* Version's Display.
VersionToString(v) ==
    NatToStr(v.major) \o <<".">> \o NatToStr(v.minor) \o <<".">> \o NatToStr(v.patch)
    \o (IF v.pre = <<>> THEN <<>> ELSE <<"-">> \o v.pre)
    \o (IF v.build = <<>> THEN <<>> ELSE <<"+">> \o v.build)

(***************************** completion **********************************)
Reverse(s) == [i \in 1..Len(s) |-> s[Len(s) + 1 - i]]

\* The records satisfied_versions keeps, in file order.
KeptRecords(lines, req) == SelectSeq(lines, LAMBDA r : StartsWith(r.vers, req) /\ ~r.yanked)

FileOrder(kept) == kept

\* The .rev() of satisfied_versions.
DisplayOrder(kept) == Reverse(kept)

\* .collect(): the parsed versions, last kept record first; the unwrap of a
\* failed parse aborts.
CollectVersions(parsed) ==
    IF \E i \in 1..Len(parsed) : ~parsed[i].ok THEN Abort ELSE Ok(DisplayOrder(parsed))

\* .map(|v| Version::parse(&v.version).unwrap())
ParseKept(kept) == CollectVersions([i \in 1..Len(kept) |-> VersionParse(kept[i].vers)])

\* The ? after detail(), then the filter.
VersionsOfLines(versions, req) ==
    IF versions.kind # "Ok" THEN versions ELSE ParseKept(KeptRecords(versions.val, req))

\* The ? after crate_(), ok_or_else on a missing crate, then detail().
VersionsOfCrate(crate_, req) ==
    IF crate_.kind = "Panic" THEN Abort
    ELSE IF crate_.kind = "None" THEN Err("NotFound")
    ELSE VersionsOfLines(Detail(crate_), req)

SatisfiedVersions(crate_name, req) == VersionsOfCrate(Crate_(crate_name), req)

Whitespace == {" "}

Operators == {">", "<", "=", "~", "^"}

RECURSIVE TrimStartMatches(_, _)
TrimStartMatches(s, chars) ==
    IF s # <<>> /\ s[1] \in chars THEN TrimStartMatches(Tail(s), chars) ELSE s

RECURSIVE TrimEndMatches(_, _)
TrimEndMatches(s, chars) ==
    IF s # <<>> /\ Last(s) \in chars THEN TrimEndMatches(Front(s), chars) ELSE s

Trim(s) == TrimEndMatches(TrimStartMatches(s, Whitespace), Whitespace)

QueryPrefix(partial_ver) ==
    TrimStartMatches(TrimStartMatches(Trim(partial_ver), Operators), {"="})

StripTrimmed(partial_ver) == QueryPrefix(partial_ver)

\* What strip_prefix is given: the input as typed.
StripWhat(partial_ver) == partial_ver

\* strip_prefix of one rendered version: the rest, or nothing.
StripPrefixes(texts, typed) ==
    [i \in 1..Len(texts) |-> IF StartsWith(texts[i], typed)
                             THEN <<Drop(texts[i], Len(typed))>> ELSE <<>>]

RECURSIVE Flatten(_)
Flatten(ss) == IF ss = <<>> THEN <<>> ELSE Flatten(Front(ss)) \o Last(ss)

\* .filter_map(..).collect() over the versions satisfied_versions returned.
Suffixes(versions, typed) ==
    IF versions.kind # "Ok" THEN versions
    ELSE Ok(Flatten(StripPrefixes([i \in 1..Len(versions.val) |-> VersionToString(versions.val[i])],
                                  typed)))

CompleteVersion(crate_name, partial_ver) ==
    Suffixes(SatisfiedVersions(crate_name, QueryPrefix(partial_ver)), StripWhat(partial_ver))

\* .map(|item| item.name)
NamesOf(found) == IF found.kind # "Ok" THEN found ELSE Ok({c.name : c \in found.val})

CompleteCrateName(partial_name) == NamesOf(CratesWithPrefixOf(partial_name))

LastIndexOf(s, ch) == IF \E i \in 1..Len(s) : s[i] = ch
                      THEN CHOOSE i \in 1..Len(s) : s[i] = ch /\ \A j \in (i + 1)..Len(s) : s[j] # ch
                      ELSE 0

\* .map(|part| format!("{}{}", partial_command, part))
Prepend(partial_command, parts) ==
    IF parts.kind # "Ok" THEN parts
    ELSE Ok([i \in 1..Len(parts.val) |-> partial_command \o parts.val[i]])

\* vers.rsplit(',').next()
LastVer(vers) == Drop(vers, LastIndexOf(vers, ","))

\* The branch for a command holding '@', split at its first one.
CompleteCrateAt(partial_command, at) ==
    Prepend(partial_command,
            CompleteVersion(SubSeq(partial_command, 1, at - 1), LastVer(Drop(partial_command, at))))

CompleteCrate(partial_command) ==
    IF IndexOf(partial_command, "@") # 0
    THEN CompleteCrateAt(partial_command, IndexOf(partial_command, "@"))
    ELSE CompleteCrateName(partial_command)

PickFirst(matching) == matching[1]

\* The record complete_feature reads the features of: the .last() one.
PickRecord(matching) == matching[Len(matching)]

\* .last().ok_or_else(..), then the keys of its features.
FeaturesOfMatching(matching) ==
    IF matching = <<>> THEN Err("NotFound") ELSE Ok(PickRecord(matching).features)

\* The ? after detail(), then the filter on the version text.
FeaturesOfLines(lines, version) ==
    IF lines.kind # "Ok" THEN lines
    ELSE FeaturesOfMatching(SelectSeq(lines.val, LAMBDA r : StartsWith(r.vers, version)))

\* The ? after crate_(), ok_or_else on a missing crate, then detail().
FeaturesOfCrate(crate_, version) ==
    IF crate_.kind = "Panic" THEN Abort
    ELSE IF crate_.kind = "None" THEN Err("NotFound")
    ELSE FeaturesOfLines(Detail(crate_), version)

CompleteFeature(crate_name, version) == FeaturesOfCrate(Crate_(crate_name), version)

(***************************** inputs **************************************)
NameChars == Letters \cup Seps

\* Crate names: they start with a letter.
NamePool == UNION {IF n[1] \in Letters THEN {n} ELSE {} : n \in SeqsFrom(NameChars, 1, MaxNameLen)}

RECURSIVE SetsUpTo(_, _)
SetsUpTo(S, k) ==
    IF k = 0 THEN {{}}
    ELSE LET smaller == SetsUpTo(S, k - 1)
         IN  smaller \cup {T \cup {x} : T \in smaller, x \in S}

\* An index with a name of every length class and names that differ only
\* in their separator.
SampleIndex ==
    { <<"a">>, <<"a", "b">>, <<"a", "b", "b">>,
      <<"a", "b", "-", "a">>, <<"a", "b", "_", "a">>, <<"a", "b", "b", "a">>,
      <<"a", "b", "a", "-", "b">> }

V100 == <<"1", ".", "0", ".", "0">>

V110 == <<"1", ".", "1", ".", "0">>

V200b == <<"2", ".", "0", ".", "0", "-", "b">>

V10 == <<"1", ".", "0">>

V0100 == <<"0", "1", ".", "0", ".", "0">>

SampleLines == <<Release(V100, FALSE, {"std"}), Release(V110, TRUE, {}), Release(V200b, FALSE, {"std", "alloc"})>>

(***************************** the queries *********************************)
\* One run of the program answers one query: entry() dispatches on the
\* subcommand once and returns.  call holds the query and its arguments;
\* result holds what the caller gets, the value in the field of its type.
Idle == [op |-> "none", a |-> <<>>, b |-> <<>>]

Blank == [kind |-> "Ok", err |-> "", crate |-> NoCrate, crates |-> {}, lines |-> <<>>,
          versions |-> <<>>, texts |-> <<>>, names |-> {}, features |-> {}, matched |-> FALSE]

NoResult == [Blank EXCEPT !.kind = "None"]

Failure(r) == [Blank EXCEPT !.kind = r.kind, !.err = r.val]

RetCrate(r) == IF r.kind = "Ok" THEN [Blank EXCEPT !.crate = r.val] ELSE Failure(r)

RetCrates(r) == IF r.kind = "Ok" THEN [Blank EXCEPT !.crates = r.val] ELSE Failure(r)

RetLines(r) == IF r.kind = "Ok" THEN [Blank EXCEPT !.lines = r.val] ELSE Failure(r)

RetVersions(r) == IF r.kind = "Ok" THEN [Blank EXCEPT !.versions = r.val] ELSE Failure(r)

RetTexts(r) == IF r.kind = "Ok" THEN [Blank EXCEPT !.texts = r.val] ELSE Failure(r)

RetNames(r) == IF r.kind = "Ok" THEN [Blank EXCEPT !.names = r.val] ELSE Failure(r)

RetFeatures(r) == IF r.kind = "Ok" THEN [Blank EXCEPT !.features = r.val] ELSE Failure(r)

RetMatched(r) == IF r.kind = "Ok" THEN [Blank EXCEPT !.matched = r.val] ELSE Failure(r)

\* What crate_ hands back: a location or none, or the abort of split_at.
Located(crate_) == IF crate_.kind = "Panic" THEN Abort ELSE Ok(crate_)

\* detail() of what crate_ found.
DetailOf(crate_) ==
    IF crate_.kind = "Panic" THEN Abort
    ELSE IF crate_.kind = "None" THEN Err("NotFound")
    ELSE Detail(crate_)

\* is_match of the compiled pattern; the unwrap of a failed compile aborts.
Matched(re, candidate) == IF re.ok THEN Ok(IsMatch(re.items, candidate)) ELSE Abort

\* complete_crate yields versions after '@' and names before it.
RetCommand(partial_command, r) ==
    IF IndexOf(partial_command, "@") # 0 THEN RetTexts(r) ELSE RetNames(r)

LocateExact(names) ==
    /\ call = Idle
    /\ \E n \in names :
        /\ call' = [op |-> "locate_exact", a |-> n, b |-> <<>>]
        /\ result' = RetCrate(Located(Crate_(n)))
        /\ UNCHANGED <<stored, meta>>

SearchPrefix(prefixes) ==
    /\ call = Idle
    /\ \E p \in prefixes :
        /\ call' = [op |-> "search_prefix", a |-> p, b |-> <<>>]
        /\ result' = RetCrates(CratesWithPrefixOf(p))
        /\ UNCHANGED <<stored, meta>>

IsMatchCall(queries, candidates) ==
    /\ call = Idle
    /\ \E q \in queries, c \in candidates :
        /\ call' = [op |-> "is_match", a |-> q, b |-> c]
        /\ result' = RetMatched(Matched(Regexify(q), c))
        /\ UNCHANGED <<stored, meta>>

Expand(fragments) ==
    /\ call = Idle
    /\ \E f \in fragments :
        /\ call' = [op |-> "expand", a |-> f, b |-> <<>>]
        /\ result' = RetTexts(Ok(ExpandPathDomain(f)))
        /\ UNCHANGED <<stored, meta>>

Load(names) ==
    /\ call = Idle
    /\ \E n \in names :
        /\ call' = [op |-> "load", a |-> n, b |-> <<>>]
        /\ result' = RetLines(DetailOf(Crate_(n)))
        /\ UNCHANGED <<stored, meta>>

SatisfiedVersionsCall(names, reqs) ==
    /\ call = Idle
    /\ \E n \in names, r \in reqs :
        /\ call' = [op |-> "satisfied_versions", a |-> n, b |-> r]
        /\ result' = RetVersions(SatisfiedVersions(n, r))
        /\ UNCHANGED <<stored, meta>>

CompleteVersionCall(names, partials) ==
    /\ call = Idle
    /\ \E n \in names, v \in partials :
        /\ call' = [op |-> "complete_version", a |-> n, b |-> v]
        /\ result' = RetTexts(CompleteVersion(n, v))
        /\ UNCHANGED <<stored, meta>>

CompleteCrateCall(commands) ==
    /\ call = Idle
    /\ \E c \in commands :
        /\ call' = [op |-> "complete_crate", a |-> c, b |-> <<>>]
        /\ result' = RetCommand(c, CompleteCrate(c))
        /\ UNCHANGED <<stored, meta>>

CompleteFeatureCall(names, versions) ==
    /\ call = Idle
    /\ \E n \in names, v \in versions :
        /\ call' = [op |-> "complete_feature", a |-> n, b |-> v]
        /\ result' = RetFeatures(CompleteFeature(n, v))
        /\ UNCHANGED <<stored, meta>>

(***************************** the shard tree alone ************************)
InitShard ==
    /\ stored \in SetsUpTo(NamePool, MaxStored) \cup {SampleIndex}
    /\ meta = [n \in stored |-> SampleLines]
    /\ call = Idle
    /\ result = NoResult

LookupNames == SeqsUpTo(NameChars, MaxNameLen)

TypedPrefixes == SeqsUpTo(NameChars \cup {"3"}, MaxPrefixLen)

NextShard == LocateExact(LookupNames) \/ SearchPrefix(TypedPrefixes)

SpecShard == InitShard /\ [][NextShard]_vars

(***************************** the matcher alone ***************************)
InitPure ==
    /\ stored = {}
    /\ meta = [n \in stored |-> SampleLines]
    /\ call = Idle
    /\ result = NoResult

Queries == SeqsUpTo(NameChars, MaxQueryLen)

Candidates == SeqsUpTo(NameChars \cup {"?"}, MaxCandLen)

NextMatch == IsMatchCall(Queries, Candidates)

SpecMatch == InitPure /\ [][NextMatch]_vars

(***************************** the expander alone **************************)
\* The fragments the traversal expands are never empty.
Fragments == SeqsFrom(NameChars, 1, MaxFragLen)

NextExpand == Expand(Fragments)

SpecExpand == InitPure /\ [][NextExpand]_vars

(***************************** one crate's releases ************************)
Pkg == <<"a", "b", "a", "b">>

VersionTexts == {V100, V110, V200b, V10, V0100}

\* The version of a release record is semantic-version text.
StoreVersions == UNION {IF VersionParse(v).ok THEN {v} ELSE {} : v \in VersionTexts}

FeatureSets == {{"std"}, {"std", "alloc"}}

StoreRecords == {Release(v, y, f) : v \in StoreVersions, y \in BOOLEAN, f \in FeatureSets}

InitStore ==
    /\ stored = {Pkg}
    /\ meta \in [stored -> SeqsUpTo(StoreRecords, MaxRecords)]
    /\ call = Idle
    /\ result = NoResult

\* The crate, the shard directory above it, and a crate the index lacks.
StoreNames == {Pkg, <<"a", "b">>, <<"b">>}

ReqPool == {SubSeq(v, 1, k) : v \in VersionTexts, k \in 0..MaxReqLen}

Decorations == {<<>>, <<"^">>, <<">", "=">>, <<" ">>}

PartialPool == {d \o r : d \in Decorations, r \in ReqPool} \cup {r \o <<" ">> : r \in ReqPool}

CommandPool == {Pkg \o <<"@">> \o v : v \in PartialPool}
               \cup {Pkg \o <<"@", "2", ",">> \o v : v \in ReqPool}
               \cup {SubSeq(Pkg, 1, k) : k \in 0..Len(Pkg)}

NextStore ==
    \/ Load(StoreNames)
    \/ SatisfiedVersionsCall(StoreNames, ReqPool)
    \/ CompleteVersionCall(StoreNames, PartialPool)
    \/ CompleteCrateCall(CommandPool)
    \/ CompleteFeatureCall(StoreNames, ReqPool)

SpecStore == InitStore /\ [][NextStore]_vars

(***************************** any index content ***************************)
RawLines == {Release(v, y, {"std"}) : v \in VersionTexts, y \in BOOLEAN} \cup {BadLine}

InitRaw ==
    /\ stored = {Pkg}
    /\ meta \in [stored -> SeqsUpTo(RawLines, MaxRecords)]
    /\ call = Idle
    /\ result = NoResult

RawNames == StoreNames \cup {<<WideChar>>, <<"a", WideChar>>, <<"a", "b", WideChar>>}

RawPrefixes == {<<>>, <<"a">>, <<"a", "b">>, <<"a", "-">>, <<"[">>, <<"a", "[">>, <<"a", WideChar>>, <<"a", "b", WideChar>>}

NextRaw ==
    \/ LocateExact(RawNames)
    \/ SearchPrefix(RawPrefixes)
    \/ Load(RawNames)
    \/ SatisfiedVersionsCall(RawNames, ReqPool)
    \/ CompleteVersionCall(RawNames, PartialPool)
    \/ CompleteFeatureCall(RawNames, ReqPool)

SpecRaw == InitRaw /\ [][NextRaw]_vars

(***************************** properties **********************************)
IsSep(c) == c \in Seps

\* n starts with p when '-' and '_' are interchangeable.
PrefixEq(p, n) ==
    /\ Len(p) <= Len(n)
    /\ \A i \in 1..Len(p) : IF IsSep(p[i]) THEN IsSep(n[i]) ELSE n[i] = p[i]

\* C1: locate_exact returns the location of every stored name, of every
\* length class, and not found for every name the index does not hold.
C1_LocateExactFindsStored ==
    call.op = "locate_exact" =>
        /\ result.kind = "Ok"
        /\ result.crate = (IF call.a \in stored THEN CrateMeta(ShardPath(call.a)) ELSE NoCrate)

\* C2: search_prefix returns every stored crate whose name starts with the
\* prefix up to the interchange of '-' and '_'.
C2_SearchPrefixComplete ==
    call.op = "search_prefix" =>
        /\ result.kind = "Ok"
        /\ \A n \in stored : PrefixEq(call.a, n) => CrateMeta(ShardPath(n)) \in result.crates

\* C3: every crate search_prefix returns has a name that starts with the
\* prefix up to the interchange of '-' and '_'.
C3_SearchPrefixSound ==
    call.op = "search_prefix" =>
        \A c \in result.crates : PrefixEq(call.a, c.name)

\* C4: the matcher built from q accepts c exactly when c starts with q up
\* to the interchange of '-' and '_', with no character of q optional.
C4_MatcherIsAnchoredPrefix ==
    call.op = "is_match" =>
        /\ result.kind = "Ok"
        /\ result.matched = PrefixEq(call.a, call.b)

RECURSIVE Pow2(_)
Pow2(k) == IF k = 0 THEN 1 ELSE 2 * Pow2(k - 1)

SepCount(f) == Cardinality({i \in 1..Len(f) : IsSep(f[i])})

\* C5: expand yields exactly 2^k pairwise distinct strings for a fragment
\* with k separators, each as long as the fragment, equal to it off the
\* separator positions and holding '-' or '_' at them; the fragment alone
\* when k = 0.
C5_ExpandYieldsAllVariants ==
    call.op = "expand" =>
        LET f == call.a
            out == result.texts
        IN  /\ Len(out) = Pow2(SepCount(f))
            /\ \A i, j \in 1..Len(out) : i # j => out[i] # out[j]
            /\ \A i \in 1..Len(out) :
                  /\ Len(out[i]) = Len(f)
                  /\ \A x \in 1..Len(f) : IF IsSep(f[x]) THEN IsSep(out[i][x]) ELSE out[i][x] = f[x]
            /\ (SepCount(f) = 0 => out = <<f>>)

C5_Witness ==
    /\ call.op = "expand"
    /\ call.a = <<"-", "a", "_">>
    /\ Len(result.texts) = 4
    /\ <<"_", "a", "-">> \in Range(result.texts)

\* The version texts of the records that are not yanked and start with
\* prefix, last in the file first.
RECURSIVE ExpectedVersions(_, _)
ExpectedVersions(lines, prefix) ==
    IF lines = <<>> THEN <<>>
    ELSE LET r == Last(lines)
         IN  (IF ~r.yanked /\ StartsWith(r.vers, prefix) THEN <<r.vers>> ELSE <<>>)
             \o ExpectedVersions(Front(lines), prefix)

\* C6: satisfied_versions returns exactly the versions of the records that
\* are not yanked and whose version text starts with the prefix, each once,
\* in the reverse of file order.
C6_SatisfiedVersionsReverseFileOrder ==
    (call.op = "satisfied_versions" /\ call.a \in stored) =>
        /\ result.kind = "Ok"
        /\ Len(result.versions) = Len(ExpectedVersions(meta[call.a], call.b))
        /\ \A i \in 1..Len(result.versions) :
               VersionToString(result.versions[i]) = ExpectedVersions(meta[call.a], call.b)[i]

C6_Witness ==
    /\ call.op = "satisfied_versions"
    /\ call.a \in stored
    /\ call.b = <<"1">>
    /\ Len(meta[call.a]) = 2
    /\ meta[call.a][1].vers = V100 /\ ~meta[call.a][1].yanked
    /\ meta[call.a][2].vers = V110 /\ ~meta[call.a][2].yanked
    /\ result.kind = "Ok"
    /\ Len(result.versions) = 2
    /\ VersionToString(result.versions[1]) = V110
    /\ VersionToString(result.versions[2]) = V100

RECURSIVE ExpectedSuffixes(_, _)
ExpectedSuffixes(texts, input) ==
    IF texts = <<>> THEN <<>>
    ELSE (IF StartsWith(texts[1], input) THEN <<Drop(texts[1], Len(input))>> ELSE <<>>)
         \o ExpectedSuffixes(Tail(texts), input)

\* complete_version returns, in satisfied_versions order, one suffix for
\* each version satisfied_versions returns for the input without its
\* leading operator characters whose text starts with the input as typed;
\* the input followed by a suffix is the version text of a record that is
\* not yanked.
C7_CompleteVersionSuffixes ==
    (call.op = "complete_version" /\ call.a \in stored) =>
        LET want == ExpectedSuffixes(
                        ExpectedVersions(meta[call.a], TrimStartMatches(call.b, Operators)), call.b)
        IN  /\ result.kind = "Ok"
            /\ Len(result.texts) = Len(want)
            /\ \A i \in 1..Len(want) : result.texts[i] = want[i]
            /\ \A i \in 1..Len(result.texts) :
                   \E k \in 1..Len(meta[call.a]) :
                       /\ ~meta[call.a][k].yanked
                       /\ meta[call.a][k].vers = call.b \o result.texts[i]

\* Through complete_crate, a command name@versions is completed by the
\* suffixes of its last comma-separated version, each appended to the
\* whole command.
C7_CompleteCrateAppendsSuffixes ==
    (call.op = "complete_crate" /\ IndexOf(call.a, "@") # 0
        /\ SubSeq(call.a, 1, IndexOf(call.a, "@") - 1) \in stored) =>
        LET name == SubSeq(call.a, 1, IndexOf(call.a, "@") - 1)
            vers == Drop(call.a, IndexOf(call.a, "@"))
            typed == Drop(vers, LastIndexOf(vers, ","))
            want == ExpectedSuffixes(
                        ExpectedVersions(meta[name], TrimStartMatches(typed, Operators)), typed)
        IN  /\ result.kind = "Ok"
            /\ Len(result.texts) = Len(want)
            /\ \A i \in 1..Len(want) : result.texts[i] = call.a \o want[i]

\* C7: complete_version returns exactly one suffix for each satisfied
\* version whose text extends the input as typed, in satisfied_versions
\* order, so that input and suffix together are the version text of a
\* record that is not yanked; complete_crate appends them to the command.
C7_CompleteVersionAndCrate == C7_CompleteVersionSuffixes /\ C7_CompleteCrateAppendsSuffixes

C7_Witness ==
    /\ call.op = "complete_version"
    /\ call.a \in stored
    /\ call.b = <<"1", ".">>
    /\ result.kind = "Ok"
    /\ Len(result.texts) = 2
    /\ result.texts[1] = <<"1", ".", "0">>
    /\ result.texts[2] = <<"0", ".", "0">>

C9_QueriesNeverAbort ==
    /\ result.kind # "Abort"
    /\ (call.op = "load" /\ call.a \in stored /\ \E i \in 1..Len(meta[call.a]) : ~meta[call.a][i].ok)
          => (result.kind = "Err" /\ result.err = "DecodeFailure")

\* C10: a location locate_exact returns is a metadata file named as asked,
\* never a shard directory.
C10_LocateExactReturnsFile ==
    (call.op = "locate_exact" /\ result.kind = "Ok" /\ result.crate.kind = "Some") =>
        /\ IsFile(result.crate.path)
        /\ result.crate.name = call.a

=============================================================================
